---- MODULE Spec2Model ----
(***************************************************************************)
(* Model of suite2p/io/tiff.py: the three converters tiff_to_binary,       *)
(* mesoscan_to_binary and ome_to_binary, which read tiff stacks in batches *)
(* and demultiplex their frames into one binary sink per plane and channel *)
(* while accumulating a mean image and frame tallies per plane.            *)
(*                                                                         *)
(* A frame is identified by <<ik, t>>: file ordinal ik (0-based, as in     *)
(* enumerate(fs)) and page index t inside that file.  A frame has one      *)
(* pixel, Pixel(<<ik,t>>), so that sums and means are integers/rationals.  *)
(* Planes are numbered 0..nplanes-1 as in the source; file-indexed arrays  *)
(* are TLA+ sequences, so frames_per_file[ik+1] is python's [ik].          *)
(***************************************************************************)
EXTENDS Integers, Sequences, FiniteSets, TLC

\* ---- bounds of the model ------------------------------------------------
MaxPlanes == 3
MaxFiles == 3
MaxLen == 5
MaxBatch == 3
MaxRois == 2
MaxBrukerPlanes == 2
MaxBrukerFiles == 2
MaxMesoFiles == 2
MaxOmeFiles == 2
MaxRows == 3
MaxDelta == 2
MaxFaults == 1

VARIABLES
    ops,            \* configuration of the run (ops1[0] of the source, the keys that are read)
    pc,             \* position of the converter in its code
    ops1,           \* per output plane: nframes, frames_per_file, frames_per_folder, meanImg, meanImg_chan2
    reg_file,       \* per plane: frames written to the primary sink, in order
    reg_file_chan2, \* per plane: frames written to the secondary sink, in order
    sink,           \* per plane: state of the two sinks (unopened / open / closed)
    nchannels,      \* the converter's local nchannels
    batch_size,     \* the batch size handed to the reads
    ik,             \* ordinal of the current file
    ix,             \* next page of the current file
    Ltif,           \* number of pages of the current file
    Ltifs,          \* lengths of the files opened so far (Ltifs[ik+1] = Ltif of file ik)
    which_folder,   \* ordinal of the current folder
    iplane,         \* the plane cursor, in units of 1/nchannels (source value times nchannels)
    ntotal,         \* frames read so far
    plane_ct,       \* bruker: per plane, frames counted so far
    plane_order,    \* bruker: slice of fov_ids of the current file
    ichannel,       \* bruker: channel id of the current file
    fov_ids,        \* bruker: the slices of the frame table read so far, one per file
    channel_ids,    \* bruker: the channel ids read so far, one per file
    iplanes,        \* ome: the plane table
    rows_written,   \* mesoscope: per plane, the rows of a frame that went to each sink
    use_sktiff,     \* the backend of the run: TRUE for tifffile, FALSE for ScanImageTiffReader
    backend,        \* HAS_SCANIMAGE, whether ScanImageTiffReader reads these files, probes run,
                    \* backends used, reads inside a stack that failed or came back empty
    tif,            \* the files whose handle from open_tiff the converter has not closed
    page,           \* the sample type of the stack being read and one of its samples
    im_read,        \* the array "im" handed back by the last read
    payload,        \* per plane: the sample types and values of what was appended to its sinks
    err             \* "" or the python exception that ended the run

vars == <<ops, pc, ops1, reg_file, reg_file_chan2, sink, nchannels, batch_size, ik, ix, Ltif, Ltifs,
          which_folder, iplane, ntotal, plane_ct, plane_order, ichannel, fov_ids,
          channel_ids, iplanes, rows_written, use_sktiff, backend, tif, page,
          im_read, payload, err>>

\* ---- arithmetic helpers -------------------------------------------------
\* math.ceil(a / b) for a >= 0, b > 0
Ceil(a, b) == (a + b - 1) \div b

\* python's min
Min(a, b) == IF a <= b THEN a ELSE b

\* np.sum of an integer sequence
RECURSIVE SumSeq(_)
SumSeq(s) == IF s = <<>> THEN 0 ELSE Head(s) + SumSeq(Tail(s))

\* a slice that stops at the last complete cycle of step indices
SliceIdx_WholeCycles(start, stop, step) ==
    LET top == stop - (stop % step)
        n == IF start >= top THEN 0 ELSE ((top - start - 1) \div step) + 1
    IN [k \in 1..n |-> start + (k - 1) * step]

\* the indices selected by the python slice [start:stop:step] (start >= 0, step > 0)
SliceIdx(start, stop, step) ==
    LET n == IF start >= stop THEN 0 ELSE ((stop - start - 1) \div step) + 1
    IN [k \in 1..n |-> start + (k - 1) * step]

\* a float image is a rational num/den; den = 0 stands for nan/inf
Rat(n, d) == [num |-> n, den |-> d]
RAdd(a, b) == IF a.den = 0 \/ b.den = 0 THEN Rat(0, 0)
              ELSE Rat(a.num * b.den + b.num * a.den, a.den * b.den)
RDiv(a, n) == IF a.den = 0 \/ n = 0 THEN Rat(0, 0) ELSE Rat(a.num, a.den * n)
REq(a, b) == a.den # 0 /\ b.den # 0 /\ a.num * b.den = b.num * a.den

\* the sample of frame fr = <<file ordinal, page>> (as delivered by read_tiff)
Pixel(fr) == 1 + ((3 * fr[1] + fr[2] * fr[2]) % 5)

\* the frames of one batch: pages ix .. ix+n-1 of file k, selected by idx
Frames(k, x, idx) == [i \in 1..Len(idx) |-> <<k, x + idx[i]>>]

\* im.astype(np.float32).sum(axis=0)
RECURSIVE PixSum(_)
PixSum(frs) == IF frs = <<>> THEN 0 ELSE Pixel(Head(frs)) + PixSum(Tail(frs))

\* im.mean(axis=0): nan for an empty selection
PixMean(frs) == IF frs = <<>> THEN Rat(0, 0) ELSE Rat(PixSum(frs), Len(frs))


\* ---- configurations -----------------------------------------------------
\* first_tiffs as produced by get_tif_list: one flag per file, the first one set
FirstTiffs == {ft \in UNION {[1..n -> BOOLEAN] : n \in 1..MaxFiles} : ft[1]}

Config(cv, P, C, fc, b, br, ft, nr) ==
    [conv |-> cv, nplanes |-> P, nchannels |-> C, functional_chan |-> fc,
     batch_size |-> b, bruker |-> br, nfiles |-> Len(ft), first_tiffs |-> ft,
     nrois |-> nr, bruker_bidirectional |-> FALSE, nCh1 |-> 0, nCh2 |-> 0,
     lines |-> [n \in 1..nr |-> <<n - 1>>], force_sktiff |-> FALSE]

\* one folder of n files
OneFolder(n) == [k \in 1..n |-> k = 1]

TiffConfigs ==
    {Config("tiff", P, C, fc, b, FALSE, ft, 1) :
        P \in 1..MaxPlanes, C \in 1..2, fc \in 1..2, b \in 1..MaxBatch, ft \in FirstTiffs}

\* metadata-driven acquisitions: the frame table is read file by file at TiffOpenFile
BrukerConfigs ==
    {Config("tiff", P, C, fc, b, TRUE, ft, 1) :
        P \in 1..MaxBrukerPlanes, C \in 1..2, fc \in 1..2, b \in 1..MaxBatch,
        ft \in {f \in FirstTiffs : Len(f) <= MaxBrukerFiles}}

\* mesoscope acquisitions: nplanes planes times nrois line ranges
MesoConfigs ==
    {Config("meso", P, C, fc, b, FALSE, ft, nr) :
        P \in 1..MaxPlanes, C \in 1..2, fc \in 1..2, b \in 1..MaxBatch,
        ft \in {f \in FirstTiffs : Len(f) <= MaxMesoFiles}, nr \in 1..MaxRois}

\* ome acquisitions: nCh1 files of the functional channel, nCh2 files of the other one
OmeConfigs ==
    {[Config("ome", P, C, 1, b, FALSE, OneFolder(n1 + n2), 1)
        EXCEPT !.bruker_bidirectional = bd, !.nCh1 = n1, !.nCh2 = n2] :
        P \in 1..MaxPlanes, C \in 1..2, b \in 1..MaxBatch, bd \in BOOLEAN,
        n1 \in 1..MaxOmeFiles, n2 \in 0..MaxOmeFiles}

\* number of output planes (len(ops1))
NOut(o) == o.nplanes * o.nrois
Planes == 0..(NOut(ops) - 1)

\* the file lengths a backend can report
FileLens == 1..MaxLen

Zeros(n) == [k \in 1..n |-> 0]

\* number of True flags: first_tiffs.sum()
NFolders(ft) == Cardinality({k \in DOMAIN ft : ft[k]})

\* a plane's record before the converter has assigned its keys
NoOps == [nframes |-> 0, frames_per_file |-> <<>>, frames_per_folder |-> <<>>,
          meanImg |-> Rat(0, 1), meanImg_chan2 |-> Rat(0, 1),
          has_meanImg |-> FALSE, has_meanImg_chan2 |-> FALSE,
          has_frames_per_file |-> FALSE, Ly |-> 0, saved |-> FALSE]

\* the value of "im" when read_tiff returns None
None == [frames |-> <<>>, ndim |-> 0, dtype |-> "None", v |-> 0]

\* ScanImageTiffReader is installed and reads the files of the run
NativeBackend == [HAS_SCANIMAGE |-> TRUE, works |-> TRUE, probes |-> 0, used |-> {}, failed |-> 0]

\* a stack of int16 samples
PlainPage == [dtype |-> "int16", v |-> 0]

\* the state of a run before the converter is entered, for the configuration in ops
Fresh ==
    /\ pc = "idle"
    /\ ops1 = [j \in Planes |-> NoOps]
    /\ reg_file = [j \in Planes |-> <<>>]
    /\ reg_file_chan2 = [j \in Planes |-> <<>>]
    /\ sink = [j \in Planes |-> [reg |-> "unopened", chan2 |-> "unopened"]]
    /\ nchannels = ops.nchannels
    /\ batch_size = ops.batch_size
    /\ ik = 0
    /\ ix = 0
    /\ Ltif = 0
    /\ Ltifs = <<>>
    /\ which_folder = -1
    /\ iplane = 0
    /\ ntotal = 0
    /\ plane_ct = [j \in Planes |-> 0]
    /\ plane_order = <<>>
    /\ ichannel = 1
    /\ fov_ids = <<>>
    /\ channel_ids = <<>>
    /\ iplanes = <<>>
    /\ rows_written = [j \in Planes |-> [reg |-> <<>>, chan2 |-> <<>>]]
    /\ use_sktiff = TRUE
    /\ tif = {}
    /\ im_read = None
    /\ payload = [j \in Planes |-> {}]
    /\ err = ""

Init ==
    /\ ops \in TiffConfigs \cup BrukerConfigs \cup MesoConfigs \cup OmeConfigs
    /\ (ops.nchannels = 1 => ops.functional_chan = 1)
    /\ page = PlainPage
    /\ backend = NativeBackend
    /\ Fresh

\* ---- utils.list_files, utils.get_tif_list --------------------------------
\* a folder of data_path is [own |-> number of tiffs in it, subs |-> numbers of tiffs in its
\* subfolders, in natsorted order]

\* the loop "for folder_down in fdir" of list_files: a subfolder of n > 0 files appends n flags
\* and sets the one at lfs, the number of files listed before it
RECURSIVE ListDown(_, _, _)
ListDown(first_tiffs, lfs, fdir) ==
    IF fdir = <<>> THEN first_tiffs
    ELSE LET n == Head(fdir)
         IN IF n > 0
            THEN ListDown([(first_tiffs \o [k \in 1..n |-> FALSE]) EXCEPT ![lfs + 1] = TRUE],
                          lfs + n, Tail(fdir))
            ELSE ListDown(first_tiffs, lfs, Tail(fdir))

\* first_tiffs of list_files(froot, look_one_level_down, exts)
list_files(froot, look_one_level_down) ==
    LET first_tiffs == [k \in 1..froot.own |-> k = 1]
    IN IF look_one_level_down THEN ListDown(first_tiffs, froot.own, froot.subs)
       ELSE first_tiffs

\* ops["first_tiffs"] of get_tif_list: the flags of every folder of fold_list, concatenated
RECURSIVE get_tif_list(_, _)
get_tif_list(fold_list, look_one_level_down) ==
    IF fold_list = <<>> THEN <<>>
    ELSE list_files(Head(fold_list), look_one_level_down)
         \o get_tif_list(Tail(fold_list), look_one_level_down)

\* ---- utils.find_files_open_binaries -------------------------------------
\* opens one primary sink per plane, and a secondary one when nchannels > 1
OpenBinaries ==
    [j \in Planes |-> [reg |-> "open",
                       chan2 |-> IF ops.nchannels > 1 THEN "open" ELSE "unopened"]]

\* sets first_tiffs and a zeroed frames_per_folder in every plane's ops
FoundFiles ==
    [j \in Planes |-> [ops1[j] EXCEPT !.frames_per_folder = Zeros(NFolders(ops.first_tiffs))]]

\* the head of a converter when get_tif_list finds no file: find_files_open_binaries has opened
\* the sinks of every plane before it looks for the files, then "no tiffs" is raised
NoFiles ==
    /\ pc = "idle"
    /\ ops.nfiles = 0
    /\ sink' = OpenBinaries
    /\ pc' = "error"
    /\ err' = "Exception"
    /\ UNCHANGED <<ops, payload, page, im_read, use_sktiff, backend, tif, rows_written, ops1, reg_file,
                   reg_file_chan2, nchannels, batch_size, ik, ix, Ltif, Ltifs, which_folder,
                   iplane, ntotal, plane_ct, plane_order, ichannel, fov_ids, channel_ids,
                   iplanes>>

\* ---- tiff_to_binary -----------------------------------------------------
\* python's ~ applied to a bool (an int): ~False = -1, ~True = -2
BitNot(b) == IF b THEN -2 ELSE -1
Truthy(n) == n # 0

\* batch_size as set at lines 184-186
TiffBatchSize(o) ==
    IF Truthy(BitNot(o.bruker))
    THEN o.nplanes * o.nchannels * Ceil(o.batch_size, o.nplanes * o.nchannels)
    ELSE o.batch_size

\* use_sktiff_reader (lines 97-113): False iff ScanImageTiffReader is installed and its trial
\* read of the first file works; an exception of the trial read is caught
use_sktiff_reader == ~(backend.HAS_SCANIMAGE /\ backend.works)

\* "True if ops['force_sktiff'] else use_sktiff_reader(fs[0], ...)" (lines 181-182, 390-391)
ChosenBackend == IF ops.force_sktiff THEN TRUE ELSE use_sktiff_reader

\* the probe runs its trial read when it is called and ScanImageTiffReader is installed
Probed == [backend EXCEPT !.probes = IF ~ops.force_sktiff /\ backend.HAS_SCANIMAGE
                                     THEN @ + 1 ELSE @]

\* a file is opened or read with backend sk
Used(sk) == [backend EXCEPT !.used = @ \cup {sk}]

TiffStart ==
    /\ pc = "idle"
    /\ ops.conv = "tiff"
    /\ ops.nfiles > 0
    /\ sink' = OpenBinaries
    /\ ops1' = FoundFiles
    /\ nchannels' = ops.nchannels
    /\ batch_size' = TiffBatchSize(ops)
    /\ which_folder' = -1
    /\ ntotal' = 0
    /\ plane_ct' = [j \in Planes |-> 0]
    /\ ik' = 0
    /\ pc' = "for_file"
    /\ use_sktiff' = ChosenBackend
    /\ backend' = Probed
    /\ UNCHANGED <<ops, payload, page, im_read, tif, rows_written, reg_file, reg_file_chan2, ix, Ltif, Ltifs, iplane, plane_order,
                   ichannel, fov_ids, channel_ids, iplanes, err>>

\* a folder ordinal that steps at every file
FolderAtOpen_PerFile(k, wf) == wf + 1

\* "if ops['first_tiffs'][ik]: which_folder += 1" at the head of file k
FolderAtOpen(k, wf) == IF ops.first_tiffs[k + 1] THEN wf + 1 ELSE wf

\* a cursor that is carried over every file boundary
CursorAtOpen_NoReset(k, cur) == cur

\* the cursor at the head of file k: set to 0 when the file starts a folder
CursorAtOpen(k, cur) == IF ops.first_tiffs[k + 1] THEN 0 ELSE cur

\* head of "for ik, file in enumerate(fs)": open_tiff and the folder bookkeeping
TiffOpen(L) ==
    /\ pc = "for_file"
    /\ ops.conv = "tiff"
    /\ ik < ops.nfiles
    /\ Ltif' = L
    /\ Ltifs' = Append(Ltifs, L)
    /\ IF ops.bruker
       THEN /\ \E po \in [1..ops.nplanes -> 0..(ops.nplanes - 1)] :
                 /\ plane_order' = po
                 /\ fov_ids' = Append(fov_ids, po)
            /\ \E ch \in 1..ops.nchannels :
                 /\ ichannel' = ch
                 /\ channel_ids' = Append(channel_ids, ch)
            /\ UNCHANGED iplane
       ELSE /\ plane_order' = <<0>>
            /\ iplane' = CursorAtOpen(ik, iplane)
            /\ UNCHANGED <<ichannel, fov_ids, channel_ids>>
    /\ which_folder' = FolderAtOpen(ik, which_folder)
    /\ ix' = 0
    /\ pc' = "while"
    /\ backend' = Used(use_sktiff)
    /\ tif' = tif \cup {ik}
    /\ UNCHANGED <<ops, payload, page, im_read, use_sktiff, rows_written, nchannels, ops1, reg_file, reg_file_chan2, sink, batch_size, ik, ntotal,
                   plane_ct, iplanes, err>>

\* the file is a stack of one page or more
TiffOpenFile == \E L \in FileLens : TiffOpen(L)

\* read_tiff: the number of frames returned for a read at ix (0 stands for None)
ReadTiffCount(L, x, bs) == IF x >= L THEN 0 ELSE Min(L - x, bs)

\* ---- read_tiff ----------------------------------------------------------
\* astype(np.int16) of an integer: the low 16 bits, two's complement
Wrap16(x) == ((x + 2^15) % 2^16) - 2^15

\* a conversion that halves the samples of every type, int16 included
Normalize_HalveAll(dt, x) == Wrap16(x \div 2)

\* the sample conversion of read_tiff (lines 130-136)
Normalize(dt, x) ==
    IF dt = "uint16" THEN Wrap16(x \div 2)
    ELSE IF dt = "int32" THEN Wrap16(x \div 2)
    ELSE IF dt # "int16" THEN Wrap16(x)
    ELSE x

\* the sample conversion of the single-page branch of ome_to_binary (lines 592-594, 629-631)
OmeNormalize(dt, x) == Wrap16(IF dt = "uint16" THEN x \div 2 ELSE x)

\* pages beg .. end-1 of file k, as far as the stack of L pages goes
Pages(k, L, beg, end) == [i \in 1..(Min(end, L) - beg) |-> <<k, beg + i - 1>>]

\* what the backend hands back for nfr pages from x on: imread(file, key=range(ix, ix + nfr)),
\* tif.data() for a single-page stack, tif.data(beg=ix, end=ix + nfr) otherwise; one page
\* read by imread or by tif.data() is a 2-D array
BackendData(k, L, x, nfr, sk) ==
    IF sk THEN [frames |-> Pages(k, L, x, x + nfr), ndim |-> IF nfr = 1 THEN 2 ELSE 3]
    ELSE IF L = 1 THEN [frames |-> Pages(k, L, 0, L), ndim |-> 2]
    ELSE [frames |-> Pages(k, L, x, x + nfr), ndim |-> 3]

\* a read that leaves a single page two-dimensional
read_tiff_NoExpand(k, L, x, bs, sk, pg) ==
    IF ReadTiffCount(L, x, bs) = 0 THEN None
    ELSE LET nfr == ReadTiffCount(L, x, bs)
             data == BackendData(k, L, x, nfr, sk)
         IN [frames |-> SubSeq(data.frames, 1, Min(Len(data.frames), nfr)),
             ndim |-> data.ndim, dtype |-> "int16", v |-> Normalize(pg.dtype, pg.v)]

\* read_tiff(file, tif, Ltif, ix, batch_size, use_sktiff) on file k whose samples are pg
read_tiff(k, L, x, bs, sk, pg) ==
    IF ReadTiffCount(L, x, bs) = 0 THEN None
    ELSE LET nfr == ReadTiffCount(L, x, bs)
             data == BackendData(k, L, x, nfr, sk)
             expanded == IF data.ndim < 3 THEN 3 ELSE data.ndim
         IN [frames |-> SubSeq(data.frames, 1, Min(Len(data.frames), nfr)),
             ndim |-> expanded, dtype |-> "int16", v |-> Normalize(pg.dtype, pg.v)]

\* the sample type and value of an array
Sample(im) == [dtype |-> im.dtype, v |-> im.v]

\* the samples in the sinks after a step that appends arrays of sample s (bytearray(im2write))
Written(s) ==
    [j \in Planes |->
        IF reg_file'[j] # reg_file[j] \/ reg_file_chan2'[j] # reg_file_chan2[j]
        THEN payload[j] \cup {s}
        ELSE payload[j]]

\* the zeroing done at the first batch of the run (lines 268-275)
TiffZeroed(o) ==
    [o EXCEPT !.nframes = 0,
              !.frames_per_file = Zeros(ops.nfiles), !.has_frames_per_file = TRUE,
              !.meanImg = Rat(0, 1), !.has_meanImg = TRUE,
              !.meanImg_chan2 = IF ops.nchannels > 1 THEN Rat(0, 1) ELSE @,
              !.has_meanImg_chan2 = IF ops.nchannels > 1 THEN TRUE ELSE @]

\* i0 = nchannels * ((iplane + j) % nplanes), with the cursor cur in units of 1/nchannels
I0(cur, j, P, C) == (cur + C * j) % (P * C)

\* nfunc (lines 277-280)
NFunc == IF ops.nchannels > 1 THEN ops.functional_chan - 1 ELSE 0

\* im[int(i0) + nfunc : nframes : nplanes * nchannels] of the batch at (k, x)
PrimarySel(cur, j, k, x, nframes, P, C) ==
    Frames(k, x, SliceIdx(I0(cur, j, P, C) + NFunc, nframes, P * C))

\* im[int(i0) + 1 - nfunc : nframes : nplanes * nchannels]
SecondarySel(cur, j, k, x, nframes, P, C) ==
    Frames(k, x, SliceIdx(I0(cur, j, P, C) + 1 - NFunc, nframes, P * C))

\* a cursor that steps back by one plane for every batch, whatever its number of frames
CursorAfter_OnePerBatch(cur, nframes, P, C) == (cur - C) % (P * C)

\* a cursor that steps forward instead of backward
CursorAfter_SignSlip(cur, nframes, P, C) == (cur + nframes) % (P * C)

\* iplane = (iplane - nframes / nchannels) % nplanes, in units of 1/nchannels
CursorAfter(cur, nframes, P, C) == (cur - nframes) % (P * C)

\* the accumulation of the secondary channel of tiff_to_binary (line 292)
TiffChan2Add(acc, frs) == RAdd(acc, PixMean(frs))

\* add n frames to the tallies of file k and of the current folder
Tally(o, k, wf, n) ==
    [o EXCEPT !.nframes = @ + n,
              !.frames_per_file = [@ EXCEPT ![k + 1] = @ + n],
              !.frames_per_folder = [@ EXCEPT ![wf + 1] = @ + n]]

\* the body of the while loop for a batch of nframes frames, interleaved policy (lines 223-224,
\* 266-299)
TiffBatchBody(nframes) ==
    LET P == ops.nplanes
        C == ops.nchannels
        first == (ik = 0 /\ ix = 0)
        prim(j) == PrimarySel(iplane, j, ik, ix, nframes, P, C)
        sec(j) == SecondarySel(iplane, j, ik, ix, nframes, P, C)
    IN
        IF ~first /\ ~ops1[0].has_meanImg
        THEN \* ops1[0]["meanImg"] was never created: KeyError at line 284, after the write
             /\ reg_file' = [reg_file EXCEPT ![0] = @ \o prim(0)]
             /\ pc' = "error"
             /\ err' = "KeyError"
             /\ UNCHANGED <<reg_file_chan2, ops1, iplane, ix, ntotal>>
        ELSE
        /\ reg_file' = [j \in Planes |-> reg_file[j] \o prim(j)]
        /\ reg_file_chan2' = [j \in Planes |->
                IF C > 1 THEN reg_file_chan2[j] \o sec(j) ELSE reg_file_chan2[j]]
        /\ ops1' = [j \in Planes |->
                LET o0 == IF first THEN TiffZeroed(ops1[j]) ELSE ops1[j]
                    o1 == [o0 EXCEPT !.meanImg = RAdd(@, Rat(PixSum(prim(j)), 1))]
                    o2 == Tally(o1, ik, which_folder, Len(prim(j)))
                IN IF C > 1
                   THEN [o2 EXCEPT !.meanImg_chan2 = TiffChan2Add(@, sec(j))]
                   ELSE o2]
        /\ iplane' = CursorAfter(iplane, nframes, P, C)
        /\ ix' = ix + nframes
        /\ ntotal' = ntotal + nframes
        /\ UNCHANGED <<pc, err>>

\* one pass of the while loop, interleaved policy (lines 216-223, 266-299)
TiffBatch ==
    /\ pc = "while"
    /\ ops.conv = "tiff"
    /\ ~ops.bruker
    /\ ReadTiffCount(Ltif, ix, batch_size) > 0
    /\ TiffBatchBody(ReadTiffCount(Ltif, ix, batch_size))
    /\ backend' = Used(use_sktiff)
    /\ UNCHANGED <<ops, page, im_read, use_sktiff, tif, rows_written, nchannels, sink,
                   batch_size, ik, Ltif, Ltifs, which_folder, plane_ct, plane_order, ichannel,
                   fov_ids, channel_ids, iplanes>>
    /\ payload' = Written(Sample(read_tiff(ik, Ltif, ix, batch_size, use_sktiff, page)))

\* the zeroing done at a plane's first encounter, bruker (lines 234-241)
BrukerZeroed(o) ==
    [o EXCEPT !.nframes = 0,
              !.frames_per_file = Zeros(ops.nfiles), !.has_frames_per_file = TRUE,
              !.meanImg = Rat(0, 1), !.has_meanImg = TRUE,
              !.meanImg_chan2 = IF ops.nchannels > 1 THEN Rat(0, 1) ELSE @,
              !.has_meanImg_chan2 = IF ops.nchannels > 1 THEN TRUE ELSE @]

\* the body of "for plane_idx in plane_order" for one value v of plane_idx (lines 226-264);
\* st carries ops1, reg_file, reg_file_chan2, plane_ct, iplane and err through the loop
BrukerBody(st, v, nframes) ==
    LET ipl == plane_order[v + 1]
        im == Frames(ik, ix, [i \in 1..nframes |-> i - 1])
        current_im == IF ops.nplanes > 1
                      THEN Frames(ik, ix, IF v < nframes THEN <<v>> ELSE <<>>)
                      ELSE im
        o0 == IF st.plane_ct[ipl] = 0 THEN BrukerZeroed(st.ops1[ipl]) ELSE st.ops1[ipl]
        ct == st.plane_ct[ipl]
        st0 == [st EXCEPT !.iplane = ipl]
    IN
    IF ops.nchannels > 1
    THEN IF ichannel = ops.functional_chan
         THEN IF ct >= ops.nfiles
              THEN \* frames_per_file[int(plane_ct[iplane])] is out of range
                   [st0 EXCEPT !.reg_file[ipl] = @ \o im,
                               !.ops1[ipl] = [o0 EXCEPT !.meanImg = RAdd(@, Rat(PixSum(im), 1)),
                                                        !.nframes = @ + Len(im)],
                               !.err = "IndexError"]
              ELSE [st0 EXCEPT !.reg_file[ipl] = @ \o im,
                               !.ops1[ipl] = Tally([o0 EXCEPT !.meanImg = RAdd(@, Rat(PixSum(im), 1))],
                                                   ct, which_folder, Len(im)),
                               !.plane_ct[ipl] = @ + Len(current_im)]
         ELSE [st0 EXCEPT !.reg_file_chan2[ipl] = @ \o im,
                          !.ops1[ipl] = [o0 EXCEPT !.meanImg_chan2 = RAdd(@, PixMean(im))],
                          !.plane_ct[ipl] = @ + Len(current_im)]
    ELSE [st0 EXCEPT !.reg_file[ipl] = @ \o current_im,
                     !.ops1[ipl] = Tally([o0 EXCEPT !.meanImg = RAdd(@, Rat(PixSum(current_im), 1))],
                                         ik, which_folder, Len(current_im)),
                     !.plane_ct[ipl] = @ + Len(current_im)]

\* "for plane_idx in plane_order", from position k of plane_order on
RECURSIVE BrukerLoop(_, _, _)
BrukerLoop(st, k, nframes) ==
    IF k > Len(plane_order) \/ st.err # "" THEN st
    ELSE BrukerLoop(BrukerBody(st, plane_order[k], nframes), k + 1, nframes)

\* the body of the while loop for a batch of nframes frames, metadata-driven policy (lines
\* 223-264, 295-299)
TiffBrukerBody(nframes) ==
    LET st == BrukerLoop([ops1 |-> ops1, reg_file |-> reg_file,
                          reg_file_chan2 |-> reg_file_chan2, plane_ct |-> plane_ct,
                          iplane |-> iplane, err |-> ""], 1, nframes)
    IN
        /\ ops1' = st.ops1
        /\ reg_file' = st.reg_file
        /\ reg_file_chan2' = st.reg_file_chan2
        /\ plane_ct' = st.plane_ct
        /\ iplane' = st.iplane
        /\ err' = st.err
        /\ IF st.err # ""
           THEN pc' = "error" /\ UNCHANGED <<ix, ntotal>>
           ELSE pc' = pc /\ ix' = ix + nframes /\ ntotal' = ntotal + nframes

\* one pass of the while loop, metadata-driven policy (lines 216-264, 295-299)
TiffBrukerBatch ==
    /\ pc = "while"
    /\ ops.conv = "tiff"
    /\ ops.bruker
    /\ ReadTiffCount(Ltif, ix, batch_size) > 0
    /\ TiffBrukerBody(ReadTiffCount(Ltif, ix, batch_size))
    /\ backend' = Used(use_sktiff)
    /\ UNCHANGED <<ops, page, im_read, use_sktiff, tif, rows_written, nchannels, sink,
                   batch_size, ik, Ltif, Ltifs, which_folder, plane_order, ichannel, fov_ids,
                   channel_ids, iplanes>>
    /\ payload' = Written(Sample(read_tiff(ik, Ltif, ix, batch_size, use_sktiff, page)))

\* read_tiff returns None: leave the while loop, next file
TiffEndFile ==
    /\ pc = "while"
    /\ ops.conv = "tiff"
    /\ ReadTiffCount(Ltif, ix, batch_size) = 0
    /\ ik' = ik + 1
    /\ pc' = "for_file"
    /\ UNCHANGED <<ops, payload, page, im_read, use_sktiff, backend, tif, rows_written, nchannels, ops1, reg_file, reg_file_chan2, sink, batch_size, ix, Ltif, Ltifs,
                   which_folder, iplane, ntotal, plane_ct, plane_order, ichannel, fov_ids,
                   channel_ids, iplanes, err>>

\* the division of a plane's sums at the end of the run (lines 307-309)
MeanDivide(o) ==
    [o EXCEPT !.meanImg = RDiv(@, o.nframes),
              !.meanImg_chan2 = IF nchannels > 1 THEN RDiv(@, o.nframes) ELSE @,
              !.saved = TRUE]

\* the planes whose ops lack a key that the final loop reads
Missing(o) == ~o.has_meanImg \/ (nchannels > 1 /\ ~o.has_meanImg_chan2)

\* "for ops in ops1": every plane in order, stopping at the first KeyError
WriteOps(oo) ==
    LET bad == {j \in DOMAIN oo : Missing(oo[j])}
        stop == IF bad = {} THEN NOut(ops)
                ELSE CHOOSE j \in bad : \A i \in bad : j <= i
    IN [j \in DOMAIN oo |-> IF j < stop THEN MeanDivide(oo[j]) ELSE oo[j]]

\* a file loop that is left after its first file
FilesExhausted_AfterFirst == ik >= 1

\* "for ik, file in enumerate(fs)" has gone through the whole list
FilesExhausted == ik = ops.nfiles

\* the loop "write ops files" (lines 300-310)
TiffWriteOps ==
    /\ pc = "for_file"
    /\ ops.conv = "tiff"
    /\ FilesExhausted
    /\ ops1' = WriteOps(ops1)
    /\ IF \E j \in Planes : Missing(ops1[j])
       THEN pc' = "error" /\ err' = "KeyError"
       ELSE pc' = "close" /\ UNCHANGED err
    /\ UNCHANGED <<ops, payload, page, im_read, use_sktiff, backend, tif, rows_written, nchannels, reg_file, reg_file_chan2, sink, batch_size, ik, ix, Ltif, Ltifs,
                   which_folder, iplane, ntotal, plane_ct, plane_order, ichannel, fov_ids,
                   channel_ids, iplanes>>

\* reg_file[j].close(), reg_file_chan2[j].close() for every plane
CloseBinaries ==
    [j \in Planes |-> [reg |-> "closed",
                       chan2 |-> IF nchannels > 1 THEN "closed" ELSE sink[j].chan2]]

\* "close all binary files" (lines 311-316)
TiffClose ==
    /\ pc = "close"
    /\ ops.conv = "tiff"
    /\ sink' = CloseBinaries
    /\ pc' = "done"
    /\ UNCHANGED <<ops, payload, page, im_read, use_sktiff, backend, tif, rows_written, nchannels, ops1, reg_file, reg_file_chan2, batch_size, ik, ix, Ltif, Ltifs,
                   which_folder, iplane, ntotal, plane_ct, plane_order, ichannel, fov_ids,
                   channel_ids, iplanes, err>>

\* ---- mesoscan_to_binary -------------------------------------------------
\* ops1[j]["iplane"]: the plane of output j (lines 367-372)
JPlane(j) == j \div ops.nrois

MesoStart ==
    /\ pc = "idle"
    /\ ops.conv = "meso"
    /\ ops.nfiles > 0
    /\ sink' = OpenBinaries
    /\ ops1' = FoundFiles
    /\ nchannels' = ops.nchannels
    /\ batch_size' = ops.batch_size
    /\ which_folder' = -1
    /\ ntotal' = 0
    /\ ik' = 0
    /\ pc' = "for_file"
    /\ use_sktiff' = ChosenBackend
    /\ backend' = Probed
    /\ UNCHANGED <<ops, payload, page, im_read, tif, rows_written, reg_file, reg_file_chan2, ix, Ltif, Ltifs, iplane, plane_ct,
                   plane_order, ichannel, fov_ids, channel_ids, iplanes, err>>

\* head of the file loop (lines 396-402)
MesoOpen(L) ==
    /\ pc = "for_file"
    /\ ops.conv = "meso"
    /\ ik < ops.nfiles
    /\ Ltif' = L
    /\ Ltifs' = Append(Ltifs, L)
    /\ which_folder' = FolderAtOpen(ik, which_folder)
    /\ iplane' = CursorAtOpen(ik, iplane)
    /\ ix' = 0
    /\ pc' = "while"
    /\ backend' = Used(use_sktiff)
    /\ tif' = tif \cup {ik}
    /\ UNCHANGED <<ops, payload, page, im_read, use_sktiff, rows_written, nchannels, ops1, reg_file, reg_file_chan2, sink, batch_size, ik,
                   ntotal, plane_ct, plane_order, ichannel, fov_ids, channel_ids, iplanes, err>>

\* the file is a stack of one page or more
MesoOpenFile == \E L \in FileLens : MesoOpen(L)

\* ops1[j]["lines"]: the line table of output j (lines 368-369)
JLines(j) == ops.lines[(j % ops.nrois) + 1]

\* the rows of im[..., jlines[0]:(jlines[-1] + 1), :] (line 440)
PrimaryRows(jlines) == SliceIdx(jlines[1], jlines[Len(jlines)] + 1, 1)

\* the rows of im[np.ix_(frange, jlines, ...)] (line 450)
SecondaryRows(jlines) == jlines

\* "meanImg += im2write.sum(axis=0)": an (h, Lx) array broadcasts into an (n, Lx) one iff h = n or h = 1
Broadcasts(h, n) == h = n \/ h = 1

\* the zeroing done at the first batch of the run (lines 427-433)
MesoZeroed(o, jlines) ==
    [o EXCEPT !.nframes = 0, !.Ly = Len(jlines),
              !.meanImg = Rat(0, 1), !.has_meanImg = TRUE,
              !.meanImg_chan2 = IF nchannels > 1 THEN Rat(0, 1) ELSE @,
              !.has_meanImg_chan2 = IF nchannels > 1 THEN TRUE ELSE @]

\* the tallies of mesoscan_to_binary (lines 445-446)
MesoTally(o, wf, n) ==
    [o EXCEPT !.nframes = @ + n,
              !.frames_per_folder = [@ EXCEPT ![wf + 1] = @ + n]]

\* the first output of "for j in range(0, ops['nplanes'])" whose sum does not fit its accumulator
MesoRaises ==
    LET bad == {j \in Planes : ~Broadcasts(Len(PrimaryRows(JLines(j))), Len(JLines(j)))}
    IN IF bad = {} THEN NOut(ops) ELSE CHOOSE j \in bad : \A i \in bad : j <= i

\* one pass of the while loop (lines 403-459); the loop over j stops at output MesoRaises, or
\* at output 0 when ops1[0]["meanImg"] was never created (KeyError at line 443)
MesoBatch ==
    /\ pc = "while"
    /\ ops.conv = "meso"
    /\ ix < Ltif
    /\ LET nframes == Min(Ltif - ix, batch_size)
           P == ops.nplanes
           C == nchannels
           first == (ik = 0 /\ ix = 0)
           stop == IF ~first /\ ~ops1[0].has_meanImg THEN 0 ELSE MesoRaises
           prim(j) == PrimarySel(iplane, JPlane(j), ik, ix, nframes, P, C)
           sec(j) == SecondarySel(iplane, JPlane(j), ik, ix, nframes, P, C)
       IN
        /\ reg_file' = [j \in Planes |-> IF j < stop THEN reg_file[j] \o prim(j) ELSE reg_file[j]]
        /\ reg_file_chan2' = [j \in Planes |->
                IF C > 1 /\ j < stop THEN reg_file_chan2[j] \o sec(j) ELSE reg_file_chan2[j]]
        /\ rows_written' = [j \in Planes |->
                IF j < stop
                THEN [reg |-> PrimaryRows(JLines(j)),
                      chan2 |-> IF C > 1 THEN SecondaryRows(JLines(j)) ELSE rows_written[j].chan2]
                ELSE rows_written[j]]
        /\ ops1' = [j \in Planes |->
                LET o0 == IF first THEN MesoZeroed(ops1[j], JLines(j)) ELSE ops1[j]
                    o1 == [o0 EXCEPT !.meanImg = RAdd(@, Rat(PixSum(prim(j)), 1))]
                    o2 == MesoTally(o1, which_folder, Len(prim(j)))
                IN IF j > stop THEN ops1[j]
                   ELSE IF j = stop THEN o0
                   ELSE IF C > 1
                   THEN [o2 EXCEPT !.meanImg_chan2 = RAdd(@, Rat(PixSum(sec(j)), 1))]
                   ELSE o2]
        /\ IF stop < NOut(ops)
           THEN /\ pc' = "error"
                /\ err' = IF ~first /\ ~ops1[0].has_meanImg THEN "KeyError" ELSE "ValueError"
                /\ UNCHANGED <<iplane, ix, ntotal>>
           ELSE /\ iplane' = CursorAfter(iplane, nframes, P, C)
                /\ ix' = ix + nframes
                /\ ntotal' = ntotal + nframes
                /\ UNCHANGED <<pc, err>>
    /\ backend' = Used(use_sktiff)
    /\ UNCHANGED <<ops, page, im_read, use_sktiff, tif, nchannels, sink, batch_size, ik, Ltif, Ltifs,
                   which_folder, plane_ct, plane_order, ichannel, fov_ids, channel_ids, iplanes>>
    /\ payload' = Written(page)

\* "if ix >= Ltif: break", next file (lines 404-405, 460)
MesoEndFile ==
    /\ pc = "while"
    /\ ops.conv = "meso"
    /\ ix >= Ltif
    /\ ik' = ik + 1
    /\ pc' = "for_file"
    /\ UNCHANGED <<ops, payload, page, im_read, use_sktiff, backend, tif, rows_written, nchannels, ops1, reg_file, reg_file_chan2, sink, batch_size, ix, Ltif,
                   Ltifs, which_folder, iplane, ntotal, plane_ct, plane_order, ichannel,
                   fov_ids, channel_ids, iplanes, err>>

\* the loop "write ops files" (lines 461-471)
MesoWriteOps ==
    /\ pc = "for_file"
    /\ ops.conv = "meso"
    /\ FilesExhausted
    /\ ops1' = WriteOps(ops1)
    /\ IF \E j \in Planes : Missing(ops1[j])
       THEN pc' = "error" /\ err' = "KeyError"
       ELSE pc' = "close" /\ UNCHANGED err
    /\ UNCHANGED <<ops, payload, page, im_read, use_sktiff, backend, tif, rows_written, nchannels, reg_file, reg_file_chan2, sink, batch_size, ik, ix, Ltif,
                   Ltifs, which_folder, iplane, ntotal, plane_ct, plane_order, ichannel,
                   fov_ids, channel_ids, iplanes>>

\* "close all binary files" (lines 472-477)
MesoClose ==
    /\ pc = "close"
    /\ ops.conv = "meso"
    /\ sink' = CloseBinaries
    /\ pc' = "done"
    /\ UNCHANGED <<ops, payload, page, im_read, use_sktiff, backend, tif, rows_written, nchannels, ops1, reg_file, reg_file_chan2, batch_size, ik, ix, Ltif,
                   Ltifs, which_folder, iplane, ntotal, plane_ct, plane_order, ichannel,
                   fov_ids, channel_ids, iplanes, err>>

\* ---- ome_to_binary ------------------------------------------------------
\* np.tile(row[np.newaxis, :], n).flatten()
RECURSIVE Tile(_, _)
Tile(row, n) == IF n <= 0 THEN <<>> ELSE row \o Tile(row, n - 1)

\* np.arange(0, n)
Arange(n) == [k \in 1..n |-> k - 1]

\* row[::-1]
Reversed(row) == [k \in 1..Len(row) |-> row[Len(row) + 1 - k]]

\* a bidirectional table whose second half is not reversed
PlaneTable_NoReverse(F, P, bidirectional) ==
    IF ~bidirectional
    THEN SubSeq(Tile(Arange(P), Ceil(F, P)), 1, F)
    ELSE SubSeq(Tile(Arange(P) \o Arange(P), Ceil(F, 2 * P)), 1, F)

\* the plane table of the non-bruker branch (lines 573-583), for F functional files
PlaneTable(F, P, bidirectional) ==
    IF ~bidirectional
    THEN SubSeq(Tile(Arange(P), Ceil(F, P)), 1, F)
    ELSE SubSeq(Tile(Arange(P) \o Reversed(Arange(P)), Ceil(F, 2 * P)), 1, F)

\* frames_per_file as set at line 565
OmeFramesPerFile(F, n_pages) == IF n_pages = 1 THEN [k \in 1..F |-> 1] ELSE Zeros(F)

\* the zeroing of every plane (lines 562-568)
OmeZeroed(o, nch, n_pages) ==
    [o EXCEPT !.nframes = 0,
              !.frames_per_folder = [@ EXCEPT ![1] = 0],
              !.frames_per_file = OmeFramesPerFile(ops.nCh1, n_pages),
              !.has_frames_per_file = TRUE,
              !.meanImg = Rat(0, 1), !.has_meanImg = TRUE,
              !.meanImg_chan2 = IF nch > 1 THEN Rat(0, 1) ELSE @,
              !.has_meanImg_chan2 = IF nch > 1 THEN TRUE ELSE @]

\* n_pages of the first functional file, kept as Ltifs[1]
NPages == Ltifs[1]

\* lines 497-585: open the sinks, choose the backend, split the file list, open the first
\* functional file with TiffReader, size the accumulators, build the table
OmeStart ==
    /\ pc = "idle"
    /\ ops.conv = "ome"
    /\ ops.nfiles > 0
    /\ sink' = OpenBinaries
    /\ batch_size' = ops.batch_size
    /\ use_sktiff' = ~backend.HAS_SCANIMAGE
    /\ nchannels' = IF ops.nCh2 = 0 THEN 1 ELSE ops.nchannels
    /\ backend' = Used(~backend.HAS_SCANIMAGE)
    /\ ntotal' = 0
    /\ ik' = 0
    /\ IF backend.HAS_SCANIMAGE /\ ~backend.works
       THEN \* ScanImageTiffReader(fs_Ch1[0]) raises
            /\ ops1' = FoundFiles
            /\ pc' = "error"
            /\ err' = "Exception"
            /\ UNCHANGED <<Ltifs, iplanes>>
       ELSE /\ \E n_pages \in FileLens :
                /\ Ltifs' = <<n_pages>>
                /\ ops1' = [j \in Planes |-> OmeZeroed(FoundFiles[j], nchannels', n_pages)]
            /\ iplanes' = PlaneTable(ops.nCh1, ops.nplanes, ops.bruker_bidirectional)
            /\ pc' = "ome_ch1"
            /\ UNCHANGED err
    /\ UNCHANGED <<ops, payload, page, im_read, tif, rows_written, reg_file, reg_file_chan2, ix, Ltif,
                   which_folder, iplane, plane_ct, plane_order, ichannel, fov_ids, channel_ids>>

\* ordinal in fs of file k of the list that pc is looping over
OmeFile(k) == IF pc \in {"ome_ch1", "ome_while1"} THEN k ELSE ops.nCh1 + k

\* one single-page file of either list (lines 586-600 and 624-633)
OmeSinglePage ==
    /\ pc \in {"ome_ch1", "ome_ch2"}
    /\ ops.conv = "ome"
    /\ NPages = 1
    /\ ik < (IF pc = "ome_ch1" THEN ops.nCh1 ELSE ops.nCh2)
    /\ IF ik >= Len(iplanes)
       THEN /\ pc' = "error"
            /\ err' = "IndexError"
            /\ UNCHANGED <<ops1, reg_file, reg_file_chan2, ik, ntotal, Ltifs, backend>>
       ELSE LET ip == iplanes[ik + 1]
                im == <<OmeFile(ik), 0>>
            IN /\ IF pc = "ome_ch1"
                  THEN /\ ops1' = [ops1 EXCEPT ![ip] =
                                [@ EXCEPT !.nframes = @ + 1,
                                          !.frames_per_folder = [@ EXCEPT ![1] = @ + 1],
                                          !.meanImg = RAdd(@, Rat(Pixel(im), 1))]]
                       /\ reg_file' = [reg_file EXCEPT ![ip] = Append(@, im)]
                       /\ UNCHANGED reg_file_chan2
                  ELSE /\ ops1' = [ops1 EXCEPT ![ip] =
                                [@ EXCEPT !.meanImg_chan2 = RAdd(@, Rat(Pixel(im), 1))]]
                       /\ reg_file_chan2' = [reg_file_chan2 EXCEPT ![ip] = Append(@, im)]
                       /\ UNCHANGED reg_file
               /\ Ltifs' = IF OmeFile(ik) = 0 THEN Ltifs ELSE Append(Ltifs, 1)
               /\ ntotal' = ntotal + 1
               /\ backend' = Used(~backend.HAS_SCANIMAGE)
               /\ ik' = ik + 1
               /\ UNCHANGED <<pc, err>>
    /\ UNCHANGED <<ops, page, im_read, use_sktiff, tif, rows_written, nchannels, sink, batch_size, ix, Ltif, which_folder, iplane, plane_ct,
                   plane_order, ichannel, fov_ids, channel_ids, iplanes>>
    /\ payload' = Written([dtype |-> "int16", v |-> OmeNormalize(page.dtype, page.v)])

\* a multi-page file of either list: ip = iplanes[ik], open_tiff (lines 587, 603-605, 625, 635-636)
OmeOpenFile ==
    /\ pc \in {"ome_ch1", "ome_ch2"}
    /\ ops.conv = "ome"
    /\ NPages # 1
    /\ ik < (IF pc = "ome_ch1" THEN ops.nCh1 ELSE ops.nCh2)
    /\ IF ik >= Len(iplanes)
       THEN /\ pc' = "error"
            /\ err' = "IndexError"
            /\ UNCHANGED <<Ltif, Ltifs, ix, backend, tif>>
       ELSE /\ \E L \in FileLens :
                /\ OmeFile(ik) = 0 => L = NPages
                /\ Ltif' = L
                /\ Ltifs' = IF OmeFile(ik) = 0 THEN Ltifs ELSE Append(Ltifs, L)
            /\ ix' = 0
            /\ backend' = Used(~backend.HAS_SCANIMAGE)
            /\ tif' = tif \cup {OmeFile(ik)}
            /\ pc' = IF pc = "ome_ch1" THEN "ome_while1" ELSE "ome_while2"
            /\ UNCHANGED err
    /\ UNCHANGED <<ops, payload, page, im_read, use_sktiff, rows_written, nchannels, ops1, reg_file, reg_file_chan2, sink, batch_size, ik,
                   which_folder, iplane, ntotal, plane_ct, plane_order, ichannel, fov_ids,
                   channel_ids, iplanes>>

\* one pass of a while loop of a multi-page file (lines 606-620 and 637-648)
OmeBatch ==
    /\ pc \in {"ome_while1", "ome_while2"}
    /\ ops.conv = "ome"
    /\ ReadTiffCount(Ltif, ix, batch_size) > 0
    /\ LET nframes == ReadTiffCount(Ltif, ix, batch_size)
           ip == iplanes[ik + 1]
           im == Frames(OmeFile(ik), ix, [i \in 1..nframes |-> i - 1])
       IN
        /\ IF pc = "ome_while1"
           THEN /\ reg_file' = [reg_file EXCEPT ![ip] = @ \o im]
                /\ ops1' = [ops1 EXCEPT ![ip] =
                        [@ EXCEPT !.meanImg = RAdd(@, Rat(PixSum(im), 1)),
                                  !.nframes = @ + Len(im),
                                  !.frames_per_file = [@ EXCEPT ![ik + 1] = @ + nframes],
                                  !.frames_per_folder = [@ EXCEPT ![1] = @ + nframes]]]
                /\ UNCHANGED reg_file_chan2
           ELSE /\ reg_file_chan2' = [reg_file_chan2 EXCEPT ![ip] = @ \o im]
                /\ ops1' = [ops1 EXCEPT ![ip] =
                        [@ EXCEPT !.meanImg_chan2 = RAdd(@, Rat(PixSum(im), 1))]]
                /\ UNCHANGED reg_file
        /\ ix' = ix + nframes
        /\ ntotal' = ntotal + nframes
    /\ backend' = Used(use_sktiff)
    /\ UNCHANGED <<ops, page, im_read, use_sktiff, tif, rows_written, nchannels, pc, sink, batch_size, ik, Ltif, Ltifs, which_folder, iplane,
                   plane_ct, plane_order, ichannel, fov_ids, channel_ids, iplanes, err>>
    /\ payload' = Written(Sample(read_tiff(OmeFile(ik), Ltif, ix, batch_size, use_sktiff, page)))

\* read_tiff returns None: next file of the list (lines 608-609 and 639-640)
OmeEndFile ==
    /\ pc \in {"ome_while1", "ome_while2"}
    /\ ops.conv = "ome"
    /\ ReadTiffCount(Ltif, ix, batch_size) = 0
    /\ ik' = ik + 1
    /\ pc' = IF pc = "ome_while1" THEN "ome_ch1" ELSE "ome_ch2"
    /\ UNCHANGED <<ops, payload, page, im_read, use_sktiff, backend, tif, rows_written, nchannels, ops1, reg_file, reg_file_chan2, sink, batch_size, ix, Ltif,
                   Ltifs, which_folder, iplane, ntotal, plane_ct, plane_order, ichannel,
                   fov_ids, channel_ids, iplanes, err>>

\* end of the functional list: "if nchannels > 1" starts the second list (lines 622-624)
OmeEndCh1 ==
    /\ pc = "ome_ch1"
    /\ ops.conv = "ome"
    /\ ik = ops.nCh1
    /\ ik' = 0
    /\ pc' = IF nchannels > 1 THEN "ome_ch2" ELSE "ome_write"
    /\ UNCHANGED <<ops, payload, page, im_read, use_sktiff, backend, tif, rows_written, nchannels, ops1, reg_file, reg_file_chan2, sink, batch_size, ix, Ltif,
                   Ltifs, which_folder, iplane, ntotal, plane_ct, plane_order, ichannel,
                   fov_ids, channel_ids, iplanes, err>>

\* the loop "write ops files" (lines 650-660), reached when the second list is exhausted
OmeWriteOps ==
    /\ \/ pc = "ome_write"
       \/ pc = "ome_ch2" /\ ik = ops.nCh2
    /\ ops.conv = "ome"
    /\ ops1' = WriteOps(ops1)
    /\ pc' = "close"
    /\ UNCHANGED <<ops, payload, page, im_read, use_sktiff, backend, tif, rows_written, nchannels, reg_file, reg_file_chan2, sink, batch_size, ik, ix, Ltif,
                   Ltifs, which_folder, iplane, ntotal, plane_ct, plane_order, ichannel,
                   fov_ids, channel_ids, iplanes, err>>

\* "close all binary files" (lines 661-666)
OmeClose ==
    /\ pc = "close"
    /\ ops.conv = "ome"
    /\ sink' = CloseBinaries
    /\ pc' = "done"
    /\ UNCHANGED <<ops, payload, page, im_read, use_sktiff, backend, tif, rows_written, nchannels, ops1, reg_file, reg_file_chan2, batch_size, ik, ix, Ltif,
                   Ltifs, which_folder, iplane, ntotal, plane_ct, plane_order, ichannel,
                   fov_ids, channel_ids, iplanes, err>>

Next ==
    \/ TiffStart
    \/ TiffOpenFile
    \/ TiffBatch
    \/ TiffBrukerBatch
    \/ TiffEndFile
    \/ TiffWriteOps
    \/ TiffClose
    \/ MesoStart
    \/ MesoOpenFile
    \/ MesoBatch
    \/ MesoEndFile
    \/ MesoWriteOps
    \/ MesoClose
    \/ OmeStart
    \/ OmeSinglePage
    \/ OmeOpenFile
    \/ OmeBatch
    \/ OmeEndFile
    \/ OmeEndCh1
    \/ OmeWriteOps
    \/ OmeClose

Spec == Init /\ [][Next]_vars


\* ---- vocabulary of the properties ---------------------------------------
Interleaved == ops.conv = "tiff" /\ ~ops.bruker
MetadataDriven == ops.conv = "tiff" /\ ops.bruker

\* the pages of the files whose lengths are in Ltifs, in file order then page order
RECURSIVE FramesUpTo(_)
FramesUpTo(n) ==
    IF n = 0 THEN <<>>
    ELSE FramesUpTo(n - 1) \o [t \in 1..Ltifs[n] |-> <<n - 1, t - 1>>]
AllFrames == FramesUpTo(Len(Ltifs))

\* ordinal of the file that starts the folder of file k
FolderStart(k) == CHOOSE f \in 0..k :
    /\ ops.first_tiffs[f + 1]
    /\ \A g \in (f + 1)..k : ~ops.first_tiffs[g + 1]

\* number of frames of files a..b-1
RECURSIVE LenSum(_, _)
LenSum(a, b) == IF a >= b THEN 0 ELSE Ltifs[a + 1] + LenSum(a + 1, b)

\* position of a frame in the concatenation of all files, and of the files of its folder
GlobalIndex(fr) == LenSum(0, fr[1]) + fr[2]
FolderIndex(fr) == LenSum(FolderStart(fr[1]), fr[1]) + fr[2]

\* number of times a frame occurs in a sink
Occ(snk, fr) == Cardinality({i \in DOMAIN snk : snk[i] = fr})
\* number of times a frame occurs in all sinks
OccAll(fr) ==
    LET n1 == [j \in Planes |-> Occ(reg_file[j], fr)]
        n2 == [j \in Planes |-> Occ(reg_file_chan2[j], fr)]
    IN SumSeq([j \in 1..NOut(ops) |-> n1[j - 1] + n2[j - 1]])

Range(sq) == {sq[i] : i \in DOMAIN sq}

\* ---- C1 -----------------------------------------------------------------
\* the frames of the run whose global index is p modulo nplanes, in increasing index
PlaneFrames(p) ==
    LET keep(fr) == GlobalIndex(fr) % ops.nplanes = p
    IN SelectSeq(AllFrames, keep)

\* C1: tiff_to_binary, interleaved policy, one channel, one folder: at the end of the run
\* the primary sink of plane p holds exactly the frames with global index g, g mod nplanes = p,
\* in increasing g, and ops1[p]["nframes"] is their number.
C1_InterleavedOneChannel ==
    (pc = "done" /\ Interleaved /\ ops.nchannels = 1 /\ NFolders(ops.first_tiffs) = 1)
    => \A p \in Planes :
        /\ reg_file[p] = PlaneFrames(p)
        /\ ops1[p].nframes = Len(PlaneFrames(p))

\* two files in one folder, the first one ending inside a plane cycle, several batches per file
C1_Witness ==
    /\ pc = "done" /\ Interleaved /\ ops.nchannels = 1
    /\ ops.nplanes = 2 /\ batch_size = 2
    /\ ops.first_tiffs = <<TRUE, FALSE>>
    /\ Ltifs = <<5, 3>>
    /\ reg_file[0] = << <<0, 0>>, <<0, 2>>, <<0, 4>>, <<1, 1>> >>
    /\ reg_file[1] = << <<0, 1>>, <<0, 3>>, <<1, 0>>, <<1, 2>> >>

\* ---- C3 -----------------------------------------------------------------
CursorPolicy == Interleaved \/ ops.conv = "meso"

\* C3 as stated: opening a later file never changes the cursor.
C3_CursorNeverReset ==
    [][(CursorPolicy /\ pc = "for_file" /\ pc' = "while" /\ ik > 0) => iplane' = iplane]_vars

\* C3 amended: the cursor is set to 0 at the head of every file flagged in first_tiffs and by
\* nothing else, so that while file ik is read the cursor is minus the number of frames read
\* since the start of the folder of file ik, modulo the cycle (in units of 1/nchannels).
C3_CursorResetPerFolder ==
    (CursorPolicy /\ pc = "while")
    => iplane = (0 - (LenSum(FolderStart(ik), ik) + ix)) % (ops.nplanes * ops.nchannels)

\* a later file starts a folder after a file that ended inside a cycle: the cursor is back at 0
C3_Witness ==
    /\ CursorPolicy /\ pc = "while" /\ ix = 0 /\ ik = 1
    /\ ops.first_tiffs[2]
    /\ Ltifs[1] % (ops.nplanes * ops.nchannels) # 0
    /\ iplane = 0

\* ---- C4 -----------------------------------------------------------------
\* the cursor of the source is iplane / nchannels
CursorIsInteger == iplane % ops.nchannels = 0

\* C4 as stated: the cursor is always an integer in 0..nplanes-1 and a batch of N frames takes it
\* to (cursor - N/nchannels) mod nplanes.
C4_CursorIntegerAndStep ==
    [][CursorPolicy =>
        /\ CursorIsInteger'
        /\ (iplane' \div ops.nchannels) \in 0..(ops.nplanes - 1)
        /\ (pc = "while" /\ ix' > ix) =>
              iplane' = (iplane - (ix' - ix)) % (ops.nplanes * ops.nchannels)]_vars


\* ---- C2 -----------------------------------------------------------------
\* the frames of the run that are in no sink
Dropped == {fr \in Range(AllFrames) : OccAll(fr) = 0}

\* the last frames of the run, fewer than one cycle of nplanes * nchannels
Trailing(n) == {fr \in Range(AllFrames) : GlobalIndex(fr) >= Len(AllFrames) - n}

\* C2: frame conservation: at the end of a run every frame read is in exactly one sink (one per
\* line range for the mesoscope), every frame of a primary sink is counted once in nframes, and
\* the only frames in no sink are fewer than nplanes*nchannels trailing frames, interleaved only.
C2_FrameConservation ==
    pc = "done" =>
        /\ \A fr \in Range(AllFrames) : OccAll(fr) \in {0, ops.nrois}
        /\ \A j \in Planes : ops1[j].nframes = Len(reg_file[j])
        /\ IF Interleaved
           THEN /\ Cardinality(Dropped) < ops.nplanes * ops.nchannels
                /\ Dropped \subseteq Trailing(Cardinality(Dropped))
           ELSE Dropped = {}

\* ---- C5 -----------------------------------------------------------------
\* the element-wise mean of the frames of a sink
SinkMean(snk) == Rat(PixSum(snk), Len(snk))

\* C5: at the end of a run the mean image of every stream that received frames, primary and
\* secondary, is the sum of the frames of its sink divided by their number.
C5_MeanCorrect ==
    pc = "done" =>
        \A j \in Planes :
            /\ reg_file[j] # <<>> => REq(ops1[j].meanImg, SinkMean(reg_file[j]))
            /\ (nchannels > 1 /\ reg_file_chan2[j] # <<>>)
                  => REq(ops1[j].meanImg_chan2, SinkMean(reg_file_chan2[j]))

\* ---- C6 -----------------------------------------------------------------
\* C6: at the end of a run, for every plane, frames_per_file and frames_per_folder both sum to
\* the plane's nframes.
C6_TallySums ==
    pc = "done" =>
        \A j \in Planes :
            /\ SumSeq(ops1[j].frames_per_file) = ops1[j].nframes
            /\ SumSeq(ops1[j].frames_per_folder) = ops1[j].nframes

\* ---- C7 -----------------------------------------------------------------
\* the sink the interleaved rule gives the frame with folder index g
RulePlane(fr) == (FolderIndex(fr) \div ops.nchannels) % ops.nplanes
RulePrimary(fr) == FolderIndex(fr) % ops.nchannels = NFunc

\* the frame is in the sink of the rule, once, and in no other sink
RoutedByRule(fr) ==
    /\ OccAll(fr) = 1
    /\ IF RulePrimary(fr) THEN Occ(reg_file[RulePlane(fr)], fr) = 1
       ELSE Occ(reg_file_chan2[RulePlane(fr)], fr) = 1

\* C7: interleaved policy, two channels: every frame, with index g in the files of its folder,
\* is in the sink of plane (g div 2) mod nplanes, primary iff g mod 2 = functional_chan - 1;
\* none is skipped or put elsewhere, whatever the file lengths and batch sizes.
C7_TwoChannelRouting ==
    (pc = "done" /\ Interleaved /\ ops.nchannels = 2)
    => \A fr \in Range(AllFrames) : RoutedByRule(fr)

\* ---- C8 -----------------------------------------------------------------
\* the frames after the last complete cycle of the last folder of the run
Leftover ==
    LET last == Len(Ltifs) - 1
        n == LenSum(FolderStart(last), last + 1)
        cyc == ops.nplanes * ops.nchannels
    IN {fr \in Range(AllFrames) :
            /\ FolderStart(fr[1]) = FolderStart(last)
            /\ FolderIndex(fr) >= n - (n % cyc)}

\* C8 as stated: the leftover frames are in no sink.
C8_LeftoverDropped ==
    (pc = "done" /\ Interleaved) => \A fr \in Leftover : OccAll(fr) = 0

\* the first frame of a batch that starts at an odd folder index, two channels
FirstOfOddBatch(fr) ==
    /\ ops.nchannels = 2
    /\ fr[2] % batch_size = 0
    /\ FolderIndex(fr) % 2 = 1

\* C8 amended: the leftover frames are written like all others: each is in the sink the
\* interleaved rule gives it and nowhere else, the primary ones are counted in nframes, in the
\* tallies and in the mean, and no error ends the run; the frame that is lost is the first one
\* of a batch that starts at an odd folder index with two channels, leftover or not.
C8_LeftoverWritten ==
    /\ Interleaved => err = ""
    /\ (pc = "done" /\ Interleaved) =>
        /\ \A fr \in Leftover :
              IF FirstOfOddBatch(fr) THEN OccAll(fr) = 0 ELSE RoutedByRule(fr)
        /\ \A j \in Planes :
              /\ ops1[j].nframes = Len(reg_file[j])
              /\ SumSeq(ops1[j].frames_per_file) = Len(reg_file[j])
              /\ SumSeq(ops1[j].frames_per_folder) = Len(reg_file[j])
              /\ reg_file[j] # <<>> => REq(ops1[j].meanImg, SinkMean(reg_file[j]))

\* a run that ends inside a cycle, its last frame written and counted
C8_Witness ==
    /\ pc = "done" /\ Interleaved
    /\ ops.nplanes = 3 /\ ops.nchannels = 1
    /\ Ltifs = <<4>>
    /\ Leftover = {<<0, 3>>}
    /\ reg_file[0] = << <<0, 0>>, <<0, 3>> >>
    /\ ops1[0].nframes = 2

\* ---- C9 -----------------------------------------------------------------
MaxTableFiles == 7

\* runs of ome_to_binary up to the construction of the plane table, with longer file lists
InitTable ==
    /\ ops \in {[Config("ome", P, 1, 1, 1, FALSE, OneFolder(n1), 1)
                    EXCEPT !.bruker_bidirectional = bd, !.nCh1 = n1] :
                    P \in 1..MaxPlanes, bd \in BOOLEAN, n1 \in 1..MaxTableFiles}
    /\ page = PlainPage
    /\ backend = NativeBackend
    /\ Fresh

NextTable == OmeStart

SpecTable == InitTable /\ [][NextTable]_vars

\* entry k of the table as the claim gives it
TableEntry(k, P, bidirectional) ==
    IF ~bidirectional THEN k % P
    ELSE LET m == k % (2 * P) IN IF m < P THEN m ELSE 2 * P - 1 - m

\* C9: the plane table of ome_to_binary has one entry per functional file, every entry is a
\* plane, entry k is k mod P, or with bruker_bidirectional m if m < P else 2P-1-m, m = k mod 2P.
C9_PlaneTable ==
    (ops.conv = "ome" /\ pc # "idle") =>
        /\ Len(iplanes) = ops.nCh1
        /\ \A k \in 0..(ops.nCh1 - 1) :
            /\ iplanes[k + 1] \in 0..(ops.nplanes - 1)
            /\ iplanes[k + 1] = TableEntry(k, ops.nplanes, ops.bruker_bidirectional)

\* the two tables of the example: 5 files, 2 planes
C9_Witness ==
    /\ ops.conv = "ome" /\ ops.nplanes = 2 /\ ops.nCh1 = 5
    /\ \/ ~ops.bruker_bidirectional /\ iplanes = <<0, 1, 0, 1, 0>>
       \/ ops.bruker_bidirectional /\ iplanes = <<0, 1, 1, 0, 0>>

\* ---- C10 ----------------------------------------------------------------
\* the plane the frame table gives page t < nplanes of file k: fov_ids[nplanes * k + t]
TablePlane(fr) == fov_ids[fr[1] + 1][fr[2] + 1]

\* C10: metadata-driven policy: every frame read is in exactly one sink, the one of the plane
\* the frame table gives it; with two channels the primary sink iff the channel id of the table
\* is functional_chan, the secondary one otherwise.
C10_TableRouting ==
    (pc = "done" /\ MetadataDriven) =>
        \A fr \in Range(AllFrames) :
            /\ OccAll(fr) = 1
            /\ fr[2] < ops.nplanes =>
                IF ops.nchannels = 1 \/ channel_ids[fr[1] + 1] = ops.functional_chan
                THEN Occ(reg_file[TablePlane(fr)], fr) = 1
                ELSE Occ(reg_file_chan2[TablePlane(fr)], fr) = 1

\* ---- C11 ----------------------------------------------------------------
\* the line tables of one region: the rows of a frame of MaxRows rows, in increasing order
LineTables ==
    {l \in UNION {[1..n -> 0..(MaxRows - 1)] : n \in 1..MaxRows} :
        \A i \in 1..(Len(l) - 1) : l[i] < l[i + 1]}

\* mesoscope runs over every line table
InitMeso ==
    /\ ops \in {[Config("meso", P, C, fc, b, FALSE, ft, nr) EXCEPT !.lines = ln] :
                    P \in 1..MaxPlanes, C \in 1..2, fc \in 1..2, b \in 1..MaxBatch,
                    ft \in {f \in FirstTiffs : Len(f) <= MaxMesoFiles}, nr \in 1..MaxRois,
                    ln \in UNION {[1..n -> LineTables] : n \in 1..MaxRois}}
    /\ Len(ops.lines) = ops.nrois
    /\ ops.nplanes * ops.nrois <= MaxPlanes
    /\ (ops.nchannels = 1 => ops.functional_chan = 1)
    /\ page = PlainPage
    /\ backend = NativeBackend
    /\ Fresh

NextMeso ==
    \/ MesoStart
    \/ MesoOpenFile
    \/ MesoBatch
    \/ MesoEndFile
    \/ MesoWriteOps
    \/ MesoClose

SpecMeso == InitMeso /\ [][NextMeso]_vars

\* rows lines[j][0] .. lines[j][-1] of a frame, both included
ClosedRowRange(jlines) == [i \in 1..(jlines[Len(jlines)] - jlines[1] + 1) |-> jlines[1] + i - 1]

\* C11: mesoscope policy: for every output j the rows that go to the primary sink and the rows
\* that go to the secondary sink are both rows lines[j][0]..lines[j][-1] of the frame, and their
\* number is the height of the mean-image accumulator of j.
C11_MesoRows ==
    ops.conv = "meso" =>
        \A j \in Planes :
            /\ rows_written[j].reg # <<>> => rows_written[j].reg = ClosedRowRange(JLines(j))
            /\ rows_written[j].chan2 # <<>> => rows_written[j].chan2 = ClosedRowRange(JLines(j))
            /\ ops1[j].has_meanImg => ops1[j].Ly = Len(ClosedRowRange(JLines(j)))

\* ---- C12 ----------------------------------------------------------------
\* the integer sample types and the values each can hold
DTypes == {"uint8", "int8", "uint16", "int16", "int32", "uint32"}
Holds(dt, x) ==
    CASE dt = "uint8" -> x \in 0..(2^8 - 1)
      [] dt = "int8" -> x \in (0 - 2^7)..(2^7 - 1)
      [] dt = "uint16" -> x \in 0..(2^16 - 1)
      [] dt = "int16" -> x \in (0 - 2^15)..(2^15 - 1)
      [] dt = "int32" -> TRUE
      [] dt = "uint32" -> x >= 0

\* samples around the ends of the 8-bit and 16-bit ranges, where halving and casting differ
Corners == {0 - 2^17, 0 - 2^16, 0 - 2^15, 0 - 2^7, 0, 2^7, 2^8, 2^15, 2^16, 2^17}
Samples == {c + d : c \in Corners, d \in (0 - MaxDelta)..MaxDelta}
PageSet == {[dtype |-> dt, v |-> x] : dt \in DTypes, x \in Samples}

\* single reads of a stack of any sample type, at any position
InitRead ==
    /\ ops = Config("tiff", 1, 1, 1, 1, FALSE, OneFolder(1), 1)
    /\ page \in {pg \in PageSet : Holds(pg.dtype, pg.v)}
    /\ backend = NativeBackend
    /\ Fresh

\* one call of read_tiff
ReadTiffCall ==
    /\ pc = "idle"
    /\ \E L \in FileLens, x \in 0..(MaxLen + 1), bs \in 1..MaxBatch, sk \in BOOLEAN :
        /\ Ltif' = L
        /\ ix' = x
        /\ batch_size' = bs
        /\ use_sktiff' = sk
        /\ im_read' = read_tiff(0, L, x, bs, sk, page)
    /\ pc' = "read"
    /\ UNCHANGED <<ops, payload, page, backend, tif, ops1, reg_file, reg_file_chan2, sink, nchannels, ik, Ltifs,
                   which_folder, iplane, ntotal, plane_ct, plane_order, ichannel, fov_ids,
                   channel_ids, iplanes, rows_written, err>>

\* the read of one single-page file in ome_to_binary (lines 589-594, 626-631)
OmeSinglePageRead ==
    /\ pc = "idle"
    /\ Ltif' = 1
    /\ ix' = 0
    /\ im_read' = [frames |-> << <<0, 0>> >>, ndim |-> 2, dtype |-> "int16",
                   v |-> OmeNormalize(page.dtype, page.v)]
    /\ pc' = "read1"
    /\ UNCHANGED <<ops, payload, page, use_sktiff, backend, tif, batch_size, ops1, reg_file, reg_file_chan2, sink,
                   nchannels, ik, Ltifs, which_folder, iplane, ntotal, plane_ct, plane_order,
                   ichannel, fov_ids, channel_ids, iplanes, rows_written, err>>

NextRead ==
    \/ ReadTiffCall
    \/ OmeSinglePageRead

SpecRead == InitRead /\ [][NextRead]_vars

\* the conversion as the claim gives it
ClaimNormalize(dt, x) ==
    IF dt = "uint16" THEN x \div 2
    ELSE IF dt = "int32" THEN Wrap16(x \div 2)
    ELSE IF dt = "int16" THEN x
    ELSE Wrap16(x)

\* C12: wherever samples are normalized (read_tiff, single-page branch of ome_to_binary), a
\* uint16 sample v becomes floor(v/2), an int32 sample floor(v/2) reduced to 16 bits, a sample
\* of another integer type is cast to int16 unscaled, an int16 sample is unchanged.
C12_Normalization ==
    (pc \in {"read", "read1"} /\ im_read # None)
    => im_read.v = ClaimNormalize(page.dtype, page.v)

\* ---- C13 ----------------------------------------------------------------
\* C13: read_tiff at 0 <= ix < Ltif with batch_size >= 1 returns exactly min(batch_size,
\* Ltif - ix) frames, the frames ix .. ix+n-1 in order, as a 3-D array; at ix >= Ltif it returns
\* None and raises nothing.
C13_ReadTiff ==
    pc = "read" =>
        /\ err = ""
        /\ IF ix >= Ltif THEN im_read = None
           ELSE /\ im_read.ndim = 3
                /\ im_read.frames =
                      [i \in 1..Min(batch_size, Ltif - ix) |-> <<0, ix + i - 1>>]

\* a batch cut short by the end of the stack, and a single page that gained its leading axis
C13_Witness ==
    /\ pc = "read"
    /\ \/ /\ Ltif = 5 /\ ix = 3 /\ batch_size = 3
          /\ im_read.frames = << <<0, 3>>, <<0, 4>> >>
       \/ /\ Ltif = 1 /\ ix = 0 /\ ~use_sktiff
          /\ im_read.frames = << <<0, 0>> >> /\ im_read.ndim = 3

\* ---- C14 ----------------------------------------------------------------
\* the installations: ScanImageTiffReader missing, installed and reading the files of the run,
\* installed and failing on them
Backends ==
    {[HAS_SCANIMAGE |-> h, works |-> w, probes |-> 0, used |-> {}, failed |-> 0] :
        h \in BOOLEAN, w \in BOOLEAN} \ {[HAS_SCANIMAGE |-> FALSE, works |-> TRUE,
                                          probes |-> 0, used |-> {}, failed |-> 0]}

\* the runs of at most two planes and two files, read in batches of two frames
SmallConfigs ==
    {c \in TiffConfigs \cup BrukerConfigs \cup MesoConfigs \cup OmeConfigs :
        /\ c.nplanes <= 2 /\ c.nrois = 1 /\ c.nfiles <= 2 /\ c.batch_size = 2
        /\ (c.nchannels = 1 => c.functional_chan = 1)}

\* the runs of every converter under every installation, with and without force_sktiff
InitBackend ==
    /\ ops \in {[c EXCEPT !.force_sktiff = f] : c \in SmallConfigs, f \in BOOLEAN}
    /\ page = PlainPage
    /\ backend \in Backends
    /\ Fresh

SpecBackend == InitBackend /\ [][Next]_vars

\* C14: in every converter the backend is chosen once, before the first file is opened, and
\* every file is opened and read with it: tifffile when force_sktiff is set (no probe then) or
\* when ScanImageTiffReader is missing or fails its trial read (which raises nothing),
\* ScanImageTiffReader otherwise.
C14_BackendChoice ==
    pc # "idle" =>
        /\ use_sktiff = (ops.force_sktiff \/ ~backend.HAS_SCANIMAGE \/ ~backend.works)
        /\ backend.used \subseteq {use_sktiff}
        /\ backend.probes <= 1
        /\ ops.force_sktiff => backend.probes = 0
        /\ err # "Exception"

\* ---- C15 ----------------------------------------------------------------
\* the files the converter loops over: fs, or fs_Ch1 and (with two channels) fs_Ch2
FilesToRead ==
    IF ops.conv = "ome" THEN ops.nCh1 + (IF nchannels > 1 THEN ops.nCh2 ELSE 0)
    ELSE ops.nfiles

\* every file of the run was opened and read up to its last page
AllRead == Len(Ltifs) = FilesToRead /\ ntotal = SumSeq(Ltifs)

\* the mean of plane j was divided and its ops saved, or one of its sinks was closed
Finalized(j) ==
    ops1[j].saved \/ sink[j].reg = "closed" \/ sink[j].chan2 = "closed"

\* C15: a stream is finalized (sums divided, ops saved, sink closed) only after every file was
\* read to its end, and once: after that nothing is appended to its sinks, none of its counters
\* or means changes, and a closed sink stays closed.
C15_FinalizeLast ==
    /\ [](\A j \in Planes : Finalized(j) => AllRead)
    /\ [][\A j \in Planes :
            /\ ops1[j].saved =>
                  /\ ops1'[j] = ops1[j]
                  /\ reg_file'[j] = reg_file[j]
                  /\ reg_file_chan2'[j] = reg_file_chan2[j]
            /\ sink[j].reg = "closed" => sink'[j].reg = "closed"
            /\ sink[j].chan2 = "closed" => sink'[j].chan2 = "closed"]_vars

\* a run of two files of several batches each, finalized
C15_Witness ==
    /\ pc = "done"
    /\ ops.nfiles = 2 /\ Len(Ltifs) = 2
    /\ Ltifs[1] > batch_size /\ Ltifs[2] > batch_size
    /\ \A j \in Planes : ops1[j].saved /\ sink[j].reg = "closed"
    /\ ntotal = Ltifs[1] + Ltifs[2]

\* ---- C16 ----------------------------------------------------------------
\* C16: every sink opened by find_files_open_binaries (a primary one per plane, a secondary one
\* per plane when nchannels > 1 at that time) is closed when the converter returns: in state
\* Done no sink is open, in every converter and for every input.
C16_SinksClosed ==
    /\ pc # "idle" =>
          \A j \in Planes :
              /\ sink[j].reg # "unopened"
              /\ ops.nchannels > 1 <=> sink[j].chan2 # "unopened"
    /\ pc = "done" =>
          \A j \in Planes : sink[j].reg # "open" /\ sink[j].chan2 # "open"

\* ---- C17 ----------------------------------------------------------------
\* the converter is between two files, or past the last one
BetweenFiles == pc \in {"for_file", "ome_ch1", "ome_ch2", "ome_write", "close", "done"}

\* C17: the handle that open_tiff returns for a file is closed after the last batch of the file
\* and before the next file is opened: at most one handle is open at any time, none between two
\* files and none in state Done.
C17_HandlesClosed ==
    /\ Cardinality(tif) <= 1
    /\ BetweenFiles => tif = {}

\* ---- C18 ----------------------------------------------------------------
\* a read of pages inside the stack is about to be made
InRangeRead ==
    \/ pc = "while" /\ ix < Ltif
    \/ pc \in {"ome_while1", "ome_while2"} /\ ix < Ltif
    \/ /\ pc \in {"ome_ch1", "ome_ch2"} /\ NPages = 1
       /\ ik < (IF pc = "ome_ch1" THEN ops.nCh1 ELSE ops.nCh2)
       /\ ik < Len(iplanes)

\* the backend fails on one more read
Failed == [Used(use_sktiff) EXCEPT !.failed = @ + 1]

\* imread or tif.data raises: no converter catches it, the exception leaves the converter
ReadRaises ==
    /\ InRangeRead
    /\ backend.failed < MaxFaults
    /\ backend' = Failed
    /\ pc' = "error"
    /\ err' = "ReadError"
    /\ UNCHANGED <<ops, payload, page, im_read, use_sktiff, tif, rows_written, ops1, reg_file,
                   reg_file_chan2, sink, nchannels, batch_size, ik, ix, Ltif, Ltifs,
                   which_folder, iplane, ntotal, plane_ct, plane_order, ichannel, fov_ids,
                   channel_ids, iplanes>>

\* tiff_to_binary: read_tiff hands back an array of no frames; it is not None, so the body of
\* the while loop runs with nframes = 0 and the same read is made again (lines 216-224)
TiffReadEmpty ==
    /\ pc = "while"
    /\ ops.conv = "tiff"
    /\ ix < Ltif
    /\ backend.failed < MaxFaults
    /\ IF ops.bruker
       THEN TiffBrukerBody(0)
       ELSE TiffBatchBody(0) /\ UNCHANGED plane_ct
    /\ backend' = Failed
    /\ UNCHANGED <<ops, page, im_read, use_sktiff, tif, rows_written, nchannels, sink,
                   batch_size, ik, Ltif, Ltifs, which_folder, plane_order, ichannel, fov_ids,
                   channel_ids, iplanes>>
    /\ payload' = Written(Sample(read_tiff(ik, Ltif, ix, batch_size, use_sktiff, page)))

\* mesoscan_to_binary: "if im.size == 0: break" leaves the while loop, next file (lines 414-415)
MesoReadEmpty ==
    /\ pc = "while"
    /\ ops.conv = "meso"
    /\ ix < Ltif
    /\ backend.failed < MaxFaults
    /\ backend' = Failed
    /\ ik' = ik + 1
    /\ pc' = "for_file"
    /\ UNCHANGED <<ops, payload, page, im_read, use_sktiff, tif, rows_written, nchannels, ops1, reg_file,
                   reg_file_chan2, sink, batch_size, ix, Ltif, Ltifs, which_folder, iplane,
                   ntotal, plane_ct, plane_order, ichannel, fov_ids, channel_ids, iplanes, err>>

\* ome_to_binary, multi-page files: read_tiff hands back an array of no frames, nothing is
\* written or counted and the same read is made again (lines 606-615, 637-646)
OmeReadEmpty ==
    /\ pc \in {"ome_while1", "ome_while2"}
    /\ ops.conv = "ome"
    /\ ix < Ltif
    /\ backend.failed < MaxFaults
    /\ backend' = Failed
    /\ UNCHANGED <<ops, payload, page, im_read, use_sktiff, tif, rows_written, nchannels, ops1, reg_file,
                   reg_file_chan2, sink, batch_size, ik, ix, Ltif, Ltifs, which_folder, iplane,
                   ntotal, plane_ct, plane_order, ichannel, fov_ids, channel_ids, iplanes, pc,
                   err>>

\* the runs of every converter with a backend that may fail on a read
InitFaults ==
    /\ ops \in SmallConfigs
    /\ page = PlainPage
    /\ backend = NativeBackend
    /\ Fresh

NextFaults ==
    \/ Next
    \/ ReadRaises
    \/ TiffReadEmpty
    \/ MesoReadEmpty
    \/ OmeReadEmpty

SpecFaults == InitFaults /\ [][NextFaults]_vars

\* C18: when a read of pages inside the stack fails or comes back without data the run ends
\* with the error raised out of the converter: nothing more is read or appended to a sink and
\* the means are not divided nor the ops saved.
C18_ReadFailureAborts ==
    backend.failed > 0 =>
        /\ pc = "error"
        /\ err # ""
        /\ \A j \in Planes : ~ops1[j].saved

\* ---- C19 ----------------------------------------------------------------
\* the runs of every converter, each step of the converter eventually taken
InitLive ==
    /\ ops \in SmallConfigs
    /\ page = PlainPage
    /\ backend = NativeBackend
    /\ Fresh

SpecLive == InitLive /\ [][Next]_vars /\ WF_vars(Next)

\* the position of the converter in the frames of the run changes only by a batch that follows
\* the previous one in the same file, by the opening of a file at its first page, and by going
\* to the next file of the list once the current one was read to its end
ReadsInOrder ==
    /\ ix' # ix =>
          \/ /\ ix' - ix \in 1..batch_size /\ ix' <= Ltif' /\ Ltif' = Ltif /\ ik' = ik
          \/ /\ ix' = 0 /\ ik' = ik
    /\ (ik' # ik /\ pc # "idle") =>
          \/ /\ ik' = ik + 1
             /\ ix = Ltif \/ (ops.conv = "ome" /\ NPages = 1)
          \/ ik' = 0 /\ pc = "ome_ch1"

\* C19: for every list of files and every batch size each converter reaches Done, having asked
\* for the pages 0..L-1 of every file once, in increasing order, in adjoining batches of at most
\* batch_size pages, the files taken in list order.
C19_Termination ==
    /\ [][ReadsInOrder]_vars
    /\ [](pc = "done" => AllRead)
    /\ <>(pc = "done")

\* ---- C20 ----------------------------------------------------------------
\* frames read since the head of the first file of the folder of the current file
FolderFrames == LenSum(FolderStart(ik), ik) + ix

\* C20 as stated: whenever the frames read in the whole run are a multiple of nplanes * nchannels
\* the cursor is back at its initial value 0, folder boundaries included.
C20_CursorPeriodic ==
    (Interleaved /\ pc = "while" /\ ntotal > 0 /\ ntotal % (ops.nplanes * ops.nchannels) = 0)
    => iplane = 0

\* C20 amended: whenever the frames read since the start of the current folder are a multiple of
\* nplanes * nchannels the cursor is 0, however these frames are split into batches and files.
C20_PeriodicWithinFolder ==
    (Interleaved /\ pc = "while" /\ FolderFrames % (ops.nplanes * ops.nchannels) = 0)
    => iplane = 0

\* a full number of cycles that spans two files of one folder, the first file ending inside a
\* cycle and the second one read in more than one batch
C20_Witness ==
    /\ Interleaved /\ pc = "while" /\ ik = 1 /\ ~ops.first_tiffs[2]
    /\ ops.nplanes * ops.nchannels > 1
    /\ Ltifs[1] % (ops.nplanes * ops.nchannels) # 0
    /\ ix > batch_size
    /\ FolderFrames % (ops.nplanes * ops.nchannels) = 0
    /\ iplane = 0

\* ---- C21 ----------------------------------------------------------------
\* the array handed back by read_tiff is put in place of the stack and read again, at the same
\* position and with the same backend
ReadTiffAgain ==
    /\ pc = "read"
    /\ im_read # None
    /\ im_read' = read_tiff(0, Ltif, ix, batch_size, use_sktiff,
                            [dtype |-> im_read.dtype, v |-> im_read.v])
    /\ pc' = "reread"
    /\ UNCHANGED <<ops, payload, page, use_sktiff, backend, tif, batch_size, ix, Ltif, ops1, reg_file,
                   reg_file_chan2, sink, nchannels, ik, Ltifs, which_folder, iplane, ntotal,
                   plane_ct, plane_order, ichannel, fov_ids, channel_ids, iplanes,
                   rows_written, err>>

NextReread ==
    \/ ReadTiffCall
    \/ ReadTiffAgain

SpecReread == InitRead /\ [][NextReread]_vars

\* C21: the normalization of read_tiff leaves samples that are already int16 unchanged, so that
\* normalizing the outcome of a normalization gives the same array, for every sample type and
\* value.
C21_Idempotent ==
    [][(pc = "read" /\ pc' = "reread") =>
          /\ im_read'.dtype = "int16"
          /\ im_read' = im_read]_vars

\* the largest uint16 sample was halved by the first read and kept by the second
C21_Witness ==
    /\ pc = "reread"
    /\ page = [dtype |-> "uint16", v |-> 2^16 - 1]
    /\ im_read.v = 2^15 - 1

\* ---- C22 ----------------------------------------------------------------
\* the smallest multiple of nplanes * nchannels that is not less than the configured batch size
RoundedUp(o) == o.nplanes * o.nchannels * Ceil(o.batch_size, o.nplanes * o.nchannels)

\* C22: in tiff_to_binary and mesoscan_to_binary the batch size handed to every read is the
\* smallest multiple of nplanes * nchannels that is not less than the configured batch_size.
C22_BatchMultiple ==
    (ops.conv \in {"tiff", "meso"} /\ pc \in {"for_file", "while"})
    => batch_size = RoundedUp(ops)

\* ---- C23 ----------------------------------------------------------------
\* runs on folders that hold no tiff, for every converter
EmptyConfigs ==
    {Config(cv, P, C, 1, 2, FALSE, <<>>, 1) : cv \in {"tiff", "meso", "ome"}, P \in 1..2, C \in 1..2}

InitDiscovery ==
    /\ ops \in SmallConfigs \cup EmptyConfigs
    /\ page = PlainPage
    /\ backend = NativeBackend
    /\ Fresh

NextDiscovery ==
    \/ Next
    \/ NoFiles

SpecDiscovery == InitDiscovery /\ [][NextDiscovery]_vars

\* C23: a run that fails because file discovery finds no input file has opened no sink, so
\* that no output binary was created or truncated.
C23_NoSinkBeforeFailure ==
    (pc = "error" /\ ops.nfiles = 0)
    => \A j \in Planes : sink[j].reg = "unopened" /\ sink[j].chan2 = "unopened"

\* ---- C24 ----------------------------------------------------------------
\* a file that open_tiff reports as a stack of no pages
TiffOpenEmpty == TiffOpen(0)
MesoOpenEmpty == MesoOpen(0)

\* runs of tiff_to_binary and mesoscan_to_binary over files of 0..MaxLen pages
InitEmpty ==
    /\ ops \in {c \in SmallConfigs : c.conv \in {"tiff", "meso"}}
    /\ page = PlainPage
    /\ backend = NativeBackend
    /\ Fresh

NextEmpty ==
    \/ TiffStart
    \/ TiffOpenFile
    \/ TiffOpenEmpty
    \/ TiffBatch
    \/ TiffBrukerBatch
    \/ TiffEndFile
    \/ TiffWriteOps
    \/ TiffClose
    \/ MesoStart
    \/ MesoOpenFile
    \/ MesoOpenEmpty
    \/ MesoBatch
    \/ MesoEndFile
    \/ MesoWriteOps
    \/ MesoClose

SpecEmpty == InitEmpty /\ [][NextEmpty]_vars

\* the frames that the step appends to the primary sink of plane j
Appended(j) == SubSeq(reg_file'[j], Len(reg_file[j]) + 1, Len(reg_file'[j]))
AppendsTo(j) == reg_file'[j] # reg_file[j] \/ reg_file_chan2'[j] # reg_file_chan2[j]

\* C24: the accumulators of a stream exist (zeroed) before the first payload of the stream is
\* accumulated, and a step that appends to a stream whose accumulators hold frames adds to them
\* and never starts them again from zero; for every list of file lengths, 0 included.
C24_ZeroedOnce ==
    /\ [](\A j \in Planes :
            (reg_file[j] # <<>> \/ reg_file_chan2[j] # <<>>) => ops1[j].has_meanImg)
    /\ [][\A j \in Planes :
            (AppendsTo(j) /\ ops1[j].has_meanImg /\ ops1[j].nframes > 0)
            => /\ ops1'[j].nframes = ops1[j].nframes + Len(Appended(j))
               /\ ops1'[j].meanImg = RAdd(ops1[j].meanImg, Rat(PixSum(Appended(j)), 1))]_vars

\* ---- C25 ----------------------------------------------------------------
\* stacks of the sample types that the microscopes write, one sample at the top of each range
SourcePages ==
    {[dtype |-> "int16", v |-> 2^15 - 1], [dtype |-> "uint16", v |-> 2^16 - 1],
     [dtype |-> "int32", v |-> 2^16], [dtype |-> "uint8", v |-> 2^8 - 1]}

\* the runs of every converter over stacks of every sample type
InitSamples ==
    /\ ops \in SmallConfigs
    /\ page \in SourcePages
    /\ backend = NativeBackend
    /\ Fresh

SpecSamples == InitSamples /\ [][Next]_vars

\* C25: every array appended to a sink, by every converter, went through the sample
\* normalization first, so that the sinks hold int16 samples only, whatever the sample type of
\* the source.
C25_SinksNormalized ==
    \A j \in Planes : \A s \in payload[j] : s.dtype = "int16" /\ Holds("int16", s.v)

\* ---- C26 ----------------------------------------------------------------
\* the files whose frames are in a sink, as ordinals in fs
FilesIn(snk) == {snk[i][1] : i \in DOMAIN snk}

\* C26: in ome_to_binary the frames of functional file k are in the primary sink of plane
\* iplanes[k] and those of second-channel file k in the secondary sink of plane iplanes[k], and
\* no lookup of the table is out of its bounds, for every k of either file list.
C26_FileCycle ==
    ops.conv = "ome" =>
        /\ err # "IndexError"
        /\ \A j \in Planes :
            /\ \A f \in FilesIn(reg_file[j]) :
                  f < ops.nCh1 /\ f < Len(iplanes) /\ iplanes[f + 1] = j
            /\ \A f \in FilesIn(reg_file_chan2[j]) :
                  f >= ops.nCh1 /\ f - ops.nCh1 < Len(iplanes) /\ iplanes[f - ops.nCh1 + 1] = j

\* ---- C27 ----------------------------------------------------------------
\* C27: in every state of a run, for every plane, ops1[plane]["nframes"] is the number of frames
\* appended so far to the primary sink of the plane, in every converter and policy.
C27_CounterMatchesSink ==
    \A j \in Planes : ops1[j].nframes = Len(reg_file[j])

\* ---- C28 ----------------------------------------------------------------
\* C28: at the end of a run with two channels the secondary sink of every plane holds as many
\* frames as the primary one, which is ops1[plane]["nframes"], the divisor of both mean sums; for
\* every list of file lengths.
C28_SecondaryCount ==
    (pc = "done" /\ nchannels > 1)
    => \A j \in Planes :
        /\ Len(reg_file_chan2[j]) = Len(reg_file[j])
        /\ Len(reg_file_chan2[j]) = ops1[j].nframes

\* ---- C29 ----------------------------------------------------------------
\* the folders of a run: one or two entries of data_path, the first one with at most one
\* subfolder
Folders ==
    {[own |-> n, subs |-> sb] : n \in 0..2, sb \in {<<>>, <<0>>, <<1>>, <<2>>}}
DataPaths ==
    {<<f>> : f \in Folders} \cup {<<f, g>> : f \in Folders, g \in {h \in Folders : h.subs = <<>>}}

\* the folders that list_files looks into, and the number of tiffs of each
RECURSIVE Listed(_, _)
Listed(fold_list, look_one_level_down) ==
    IF fold_list = <<>> THEN <<>>
    ELSE <<Head(fold_list).own>>
         \o (IF look_one_level_down THEN Head(fold_list).subs ELSE <<>>)
         \o Listed(Tail(fold_list), look_one_level_down)

\* runs of tiff_to_binary and mesoscan_to_binary on the file lists that get_tif_list makes
InitFolders ==
    /\ \E dp \in DataPaths, lold \in BOOLEAN, cv \in {"tiff", "meso"}, br \in BOOLEAN,
          P \in 1..2, C \in 1..2 :
        /\ get_tif_list(dp, lold) # <<>>
        /\ Len(get_tif_list(dp, lold)) <= MaxFiles
        /\ br => (cv = "tiff" /\ Len(get_tif_list(dp, lold)) <= MaxBrukerFiles)
        /\ ops = Config(cv, P, C, 1, 2, br, get_tif_list(dp, lold), 1)
                    @@ [data_path |-> dp, look_one_level_down |-> lold]
    /\ page = PlainPage
    /\ backend = NativeBackend
    /\ Fresh

NextFolders ==
    \/ TiffStart
    \/ TiffOpenFile
    \/ TiffBatch
    \/ TiffBrukerBatch
    \/ TiffEndFile
    \/ TiffWriteOps
    \/ TiffClose
    \/ MesoStart
    \/ MesoOpenFile
    \/ MesoBatch
    \/ MesoEndFile
    \/ MesoWriteOps
    \/ MesoClose

SpecFolders == InitFolders /\ [][NextFolders]_vars

\* number of folder-start flags among the files 0..k, and the folder of file k
FlagsSeen(k) == Cardinality({i \in 1..(k + 1) : ops.first_tiffs[i]})
FolderOf(k) == FlagsSeen(k) - 1
\* the frames of a sink that come from the files of folder f
FromFolder(snk, f) == Cardinality({i \in DOMAIN snk : FolderOf(snk[i][1]) = f})

\* C29: the file lister gives one flag per file, the first one set and one set per non-empty
\* folder; while a file of tiff_to_binary or mesoscan_to_binary is read, which_folder is the
\* number of flags seen so far minus 1 and an index of frames_per_folder, and
\* frames_per_folder[f] of every plane is the number of the plane's frames that come from the
\* files of folder f.
C29_FolderTally ==
    LET counts == Listed(ops.data_path, ops.look_one_level_down)
    IN /\ Len(ops.first_tiffs) = SumSeq(counts)
       /\ ops.first_tiffs[1]
       /\ NFolders(ops.first_tiffs) = Cardinality({i \in DOMAIN counts : counts[i] > 0})
       /\ pc = "while" =>
            /\ which_folder = FlagsSeen(ik) - 1
            /\ \A j \in Planes : which_folder \in 0..(Len(ops1[j].frames_per_folder) - 1)
       /\ pc \in {"for_file", "while", "close", "done"} =>
            \A j \in Planes : \A f \in 0..(NFolders(ops.first_tiffs) - 1) :
                ops1[j].frames_per_folder[f + 1] = FromFolder(reg_file[j], f)

\* three files in two folders, the second folder one level down, all tallied
C29_Witness ==
    /\ pc = "done"
    /\ ops.data_path = <<[own |-> 1, subs |-> <<2>>]>> /\ ops.look_one_level_down
    /\ ops.first_tiffs = <<TRUE, TRUE, FALSE>>
    /\ ops.nplanes = 1 /\ ops.nchannels = 1
    /\ Ltifs = <<2, 1, 3>>
    /\ ops1[0].frames_per_folder = <<2, 4>>

\* ---- C30 ----------------------------------------------------------------
\* the converter is at the head of its loop "write ops files"
AtFinalize ==
    \/ ops.conv \in {"tiff", "meso"} /\ pc = "for_file" /\ FilesExhausted
    \/ ops.conv = "ome" /\ (pc = "ome_write" \/ (pc = "ome_ch2" /\ ik = ops.nCh2))

\* C30: when the final loop starts, in a run that read at least one frame, every plane has its
\* mean accumulator and a frame counter of at least 1, so that the division of the means neither
\* divides by zero nor reads a missing key; whatever nplanes, the file lengths and the frame
\* table are.
C30_FinalizeDefined ==
    (AtFinalize /\ ntotal >= 1)
    => \A j \in Planes : ops1[j].has_meanImg /\ ops1[j].nframes >= 1

\* ---- C31 ----------------------------------------------------------------
\* C31: in tiff_to_binary the batch size handed to the reads is the configured batch_size
\* rounded up to a multiple of nplanes * nchannels when the bruker flag is false, and the
\* configured batch_size unchanged when the flag is true.
C31_BrukerBatchUnchanged ==
    (ops.conv = "tiff" /\ pc \in {"for_file", "while"})
    => batch_size = (IF ops.bruker THEN ops.batch_size ELSE RoundedUp(ops))

====
